---- MODULE Spec2Model ----
(***************************************************************************)
(* Token lifecycle and like dispatch of app/token_manager.py and           *)
(* app/like_routes.py.                                                     *)
(*                                                                         *)
(* Time is counted in half hours: the refresh threshold of 6 h is 12 and   *)
(* the TTLCache retention of 7 h is 14.  One clock stands for time.time()  *)
(* and for the monotonic timer of the TTLCache.  The process starts at 0   *)
(* and is observed at the instants of Instants: at its start and at every  *)
(* half hour from the refresh threshold on, the times that the comparisons *)
(* of the code tell apart.  Every request runs on a worker of its own;     *)
(* workers interleave at the lock and at every network call.  The          *)
(* configured credentials do not change while the process runs.  A refresh *)
(* depends on the sources of the credentials only through what the loader  *)
(* yields: Spec follows the process with each yield given by one pair of   *)
(* sources, SpecLoad follows the first refreshes under every pair.         *)
(***************************************************************************)
EXTENDS Integers, Sequences, FiniteSets, TLC

\* ---------------------------------------------------------------- bounds
MaxTime == 14
MaxCreds == 2

\* ------------------------------------------------------------- constants
CACHE_DURATION == 14
TOKEN_REFRESH_THRESHOLD == 12

Instants == {0} \cup (TOKEN_REFRESH_THRESHOLD..MaxTime)

\* One request of each route is in flight at a time: w1 serves /like and w2
\* serves /health-check.
LikeWorkers == {"w1"}
HealthWorkers == {"w2"}
Workers == LikeWorkers \cup HealthWorkers
NoWorker == "none"
Servers == <<"BR", "IND">>
Regions == {Servers[k] : k \in 1..Len(Servers)}

\* A credential of the configuration: "ok" has uid and password, "nouid" is
\* an entry from which user['uid'] cannot be read.
CredKinds == {"ok", "nouid"}
\* What json.loads yields for a region: "null" is a value that is no list.
CredLists == UNION {[1..n -> CredKinds] : n \in 0..MaxCreds}
NullConfig == [iterable |-> FALSE, users |-> <<>>]
Configs == {[iterable |-> TRUE, users |-> l] : l \in CredLists} \cup {NullConfig}
\* return []
EmptyList == [iterable |-> TRUE, users |-> <<>>]
\* os.getenv(f"{server_key}_CONFIG"): unset, or a string that is empty, that
\* json.loads rejects, or that json.loads turns into a value
NoBlob == [set |-> FALSE, empty |-> FALSE, parses |-> FALSE, value |-> NullConfig]
EnvBlobs ==
  {NoBlob,
   [set |-> TRUE, empty |-> TRUE, parses |-> FALSE, value |-> NullConfig],
   [set |-> TRUE, empty |-> FALSE, parses |-> FALSE, value |-> NullConfig]}
  \cup {[set |-> TRUE, empty |-> FALSE, parses |-> TRUE, value |-> c] : c \in Configs}
\* config/<server_key>_config.json: missing, or a file that cannot be read or
\* parsed, or one that json.load turns into a value
NoFile == [exists |-> FALSE, parses |-> FALSE, value |-> NullConfig]
ConfigFiles ==
  {NoFile, [exists |-> TRUE, parses |-> FALSE, value |-> NullConfig]}
  \cup {[exists |-> TRUE, parses |-> TRUE, value |-> c] : c \in Configs}
Sources == [env : EnvBlobs, file : ConfigFiles]
\* one pair of sources for each value the loader can yield, and the deployment
\* without any source
MainSources ==
  {[env |-> [set |-> TRUE, empty |-> FALSE, parses |-> TRUE, value |-> c],
    file |-> NoFile] : c \in Configs}
  \cup {[env |-> NoBlob, file |-> NoFile]}
\* Outcome of one call of the issuer: HTTP 200 with a token, another answer
\* (another status, or no token in the body), or an exception of the transport.
IssuerResults == {"token", "status", "exc"}
\* Outcome of one like call: a success answer, an answer with a non-success
\* status, or an exception (timeout, transport error).
LikeResults == {"success", "non_success", "exception"}

NoKey == -1
NoLink == [has |-> FALSE, val |-> <<>>, expires |-> 0]

VARIABLES
  clock,          \* time.time() / the TTLCache timer
  cache,          \* self.cache: region -> link of the TTLCache
  last_refresh,   \* self.last_refresh: region -> time, NoKey when absent
  lock,           \* self.lock: the worker holding it, or NoWorker
  config,         \* the sources of the credentials per region (environment blob
                  \* and file); every region is given the same pair
  pc,             \* where each worker stands
  caller,         \* the route a worker serves
  server_key,     \* argument of the running get_tokens
  now,            \* local of get_tokens
  refresh_needed, \* local of get_tokens
  creds,          \* local of _refresh_tokens
  idx,            \* position of the for loop over creds
  tokens,         \* local of _refresh_tokens
  outcome,        \* how the refresh cycle of this call ended
  prior,          \* the link of the region when the refresh cycle of this call began
  issued,         \* the issuer calls this refresh cycle made, in order
  ret,            \* value returned by get_tokens
  servers_left,   \* health_check: servers still to ask
  token_status,   \* health_check: status collected so far
  results,        \* send_likes: result of each task of the gather
  result,         \* value returned by send_likes
  response,       \* what the route answered
  straddles,      \* the request of the worker was in flight when the clock moved
  seen,           \* now of the refresh of the same region running when the call arrived
  collected,      \* region -> tokens stored by its last completed loop
  last_outcome    \* region -> outcome of its last refresh cycle

shared == <<cache, last_refresh, lock>>
refresh_locals == <<creds, idx, tokens, outcome, prior, issued>>
call_locals == <<server_key, now, refresh_needed, ret, seen>>
route_locals == <<caller, servers_left, token_status, results, result, response,
                  straddles>>
ghosts == <<collected, last_outcome>>
vars == <<clock, cache, last_refresh, lock, config, pc, caller, server_key, now,
          refresh_needed, creds, idx, tokens, outcome, prior, issued, ret, servers_left,
          token_status, results, result, response, straddles, seen, collected,
          last_outcome>>

\* ------------------------------------------------------------- TTLCache
\* key in self.cache
InCache(c, r) == c[r].has /\ clock < c[r].expires

\* self.cache.get(key, [])
CacheGet(c, r) == IF InCache(c, r) THEN c[r].val ELSE <<>>

\* fault: the assignment drops the links of the other keys
CacheSetClearsOthers(c, r, v) ==
  [x \in Regions |->
     IF x = r THEN [has |-> TRUE, val |-> v, expires |-> clock + CACHE_DURATION]
     ELSE NoLink]

\* self.cache[key] = v: expired links are dropped, the link is stamped
CacheSet(c, r, v) ==
  [x \in Regions |->
     IF x = r THEN [has |-> TRUE, val |-> v, expires |-> clock + CACHE_DURATION]
     ELSE IF c[x].has /\ ~(clock < c[x].expires) THEN NoLink
     ELSE c[x]]

\* ---------------------------------------------------------- get_tokens
RefreshNeeded(r, t) ==
  \/ ~InCache(cache, r)
  \/ last_refresh[r] = NoKey
  \/ t - (IF last_refresh[r] = NoKey THEN 0 ELSE last_refresh[r]) > TOKEN_REFRESH_THRESHOLD

Token(cyc, i) == [cyc |-> cyc, idx |-> i]

NoResult == [sent |-> -1, added |-> -1]
NoResponse == [kind |-> "none", code |-> 0, status |-> 0, likes_added |-> 0]

InitWith(srcs) ==
  /\ clock = 0
  /\ cache = [r \in Regions |-> NoLink]
  /\ last_refresh = [r \in Regions |-> NoKey]
  /\ lock = NoWorker
  /\ config \in {[r \in Regions |-> s] : s \in srcs}
  /\ pc = [w \in Workers |-> "idle"]
  /\ caller = [w \in Workers |-> "none"]
  /\ server_key = [w \in Workers |-> "BR"]
  /\ now = [w \in Workers |-> 0]
  /\ refresh_needed = [w \in Workers |-> FALSE]
  /\ creds = [w \in Workers |-> NullConfig]
  /\ idx = [w \in Workers |-> 0]
  /\ tokens = [w \in Workers |-> <<>>]
  /\ outcome = [w \in Workers |-> "none"]
  /\ prior = [w \in Workers |-> NoLink]
  /\ issued = [w \in Workers |-> <<>>]
  /\ ret = [w \in Workers |-> <<>>]
  /\ servers_left = [w \in Workers |-> <<>>]
  /\ token_status = [w \in Workers |-> <<>>]
  /\ results = [w \in Workers |-> <<>>]
  /\ result = [w \in Workers |-> NoResult]
  /\ response = [w \in Workers |-> NoResponse]
  /\ straddles = [w \in Workers |-> FALSE]
  /\ seen = [w \in Workers |-> NoKey]
  /\ collected = [r \in Regions |-> <<>>]
  /\ last_outcome = [r \in Regions |-> "none"]

Init == InitWith(MainSources)

\* ----------------------------------------------------- call and return
ResetRefresh(w) ==
  /\ creds' = [creds EXCEPT ![w] = NullConfig]
  /\ idx' = [idx EXCEPT ![w] = 0]
  /\ prior' = [prior EXCEPT ![w] = NoLink]
  /\ tokens' = [tokens EXCEPT ![w] = <<>>]
  /\ outcome' = [outcome EXCEPT ![w] = "none"]
  /\ issued' = [issued EXCEPT ![w] = <<>>]

RefreshPcs == {"refresh", "loop", "inner_except", "except"}
LockedPcs == RefreshPcs \cup {"return"}

\* the now of the refresh of region r that is running, NoKey when there is none
RunningRefresh(r) ==
  IF \E h \in Workers : pc[h] \in RefreshPcs /\ server_key[h] = r
  THEN now[CHOOSE h \in Workers : pc[h] \in RefreshPcs /\ server_key[h] = r]
  ELSE NoKey

\* w calls self.get_tokens(r) and reaches the with statement
EnterGetTokens(w, r) ==
  /\ pc' = [pc EXCEPT ![w] = "lock"]
  /\ server_key' = [server_key EXCEPT ![w] = r]
  /\ seen' = [seen EXCEPT ![w] = RunningRefresh(r)]
  /\ now' = [now EXCEPT ![w] = 0]
  /\ refresh_needed' = [refresh_needed EXCEPT ![w] = FALSE]
  /\ ret' = [ret EXCEPT ![w] = <<>>]
  /\ ResetRefresh(w)

\* get_tokens of w returns: its frame is gone; what its refresh cycle did is
\* remembered until the caller has used the value
DropFrame(w) ==
  /\ seen' = [seen EXCEPT ![w] = NoKey]
  /\ now' = [now EXCEPT ![w] = 0]
  /\ refresh_needed' = [refresh_needed EXCEPT ![w] = FALSE]
  /\ creds' = [creds EXCEPT ![w] = NullConfig]
  /\ idx' = [idx EXCEPT ![w] = 0]
  /\ prior' = [prior EXCEPT ![w] = NoLink]
  /\ UNCHANGED <<tokens, outcome, issued>>

\* the caller has used the value get_tokens returned to w
DropValue(w) ==
  /\ ret' = [ret EXCEPT ![w] = <<>>]
  /\ tokens' = [tokens EXCEPT ![w] = <<>>]
  /\ outcome' = [outcome EXCEPT ![w] = "none"]
  /\ issued' = [issued EXCEPT ![w] = <<>>]
  /\ UNCHANGED <<server_key, now, refresh_needed, seen, creds, idx, prior>>

\* the route of w has built its answer
Answer(w, resp) ==
  /\ pc' = [pc EXCEPT ![w] = "done"]
  /\ response' = [response EXCEPT ![w] = resp]
  /\ DropValue(w)

\* the request of w is over; its frames are gone
Done(w) ==
  /\ pc[w] = "done"
  /\ pc' = [pc EXCEPT ![w] = "idle"]
  /\ caller' = [caller EXCEPT ![w] = "none"]
  /\ servers_left' = [servers_left EXCEPT ![w] = <<>>]
  /\ token_status' = [token_status EXCEPT ![w] = <<>>]
  /\ results' = [results EXCEPT ![w] = <<>>]
  /\ result' = [result EXCEPT ![w] = NoResult]
  /\ response' = [response EXCEPT ![w] = NoResponse]
  /\ straddles' = [straddles EXCEPT ![w] = FALSE]
  /\ server_key' = [server_key EXCEPT ![w] = "BR"]
  /\ seen' = [seen EXCEPT ![w] = NoKey]
  /\ now' = [now EXCEPT ![w] = 0]
  /\ refresh_needed' = [refresh_needed EXCEPT ![w] = FALSE]
  /\ ret' = [ret EXCEPT ![w] = <<>>]
  /\ ResetRefresh(w)
  /\ UNCHANGED <<clock, shared, config, ghosts>>

\* ---------------------------------------------------------- get_tokens
\* fault: the with statement does not wait for the lock
LockFreeUnchecked(w) == w \in Workers

LockFree(w) == lock = NoWorker

Acquire(w) ==
  /\ pc[w] = "lock"
  /\ LockFree(w)
  /\ lock' = w
  /\ now' = [now EXCEPT ![w] = clock]
  /\ refresh_needed' = [refresh_needed EXCEPT ![w] = RefreshNeeded(server_key[w], clock)]
  /\ pc' = [pc EXCEPT ![w] =
              IF RefreshNeeded(server_key[w], clock) THEN "refresh" ELSE "return"]
  /\ UNCHANGED <<clock, cache, last_refresh, config, refresh_locals, server_key, ret,
                 seen, route_locals, ghosts>>

\* fault: the lock is given back after a refresh only
ReturnFreshKeepsLock(w) ==
  /\ pc[w] = "return"
  /\ last_refresh' = IF refresh_needed[w]
                     THEN [last_refresh EXCEPT ![server_key[w]] = now[w]]
                     ELSE last_refresh
  /\ ret' = [ret EXCEPT ![w] = CacheGet(cache, server_key[w])]
  /\ lock' = IF refresh_needed[w] THEN NoWorker ELSE lock
  /\ pc' = [pc EXCEPT ![w] = "returned"]
  /\ DropFrame(w)
  /\ UNCHANGED <<clock, cache, config, server_key, route_locals, ghosts>>

\* return self.cache.get(server_key, []) after the stamp of a refresh
Return(w) ==
  /\ pc[w] = "return"
  /\ last_refresh' = IF refresh_needed[w]
                     THEN [last_refresh EXCEPT ![server_key[w]] = now[w]]
                     ELSE last_refresh
  /\ ret' = [ret EXCEPT ![w] = CacheGet(cache, server_key[w])]
  /\ lock' = NoWorker
  /\ pc' = [pc EXCEPT ![w] = "returned"]
  /\ DropFrame(w)
  /\ UNCHANGED <<clock, cache, config, server_key, route_locals, ghosts>>

\* ------------------------------------------------------ _refresh_tokens
\* the live link of region r, NoLink when it has none or it has expired
PriorLink(r) == IF InCache(cache, r) THEN cache[r] ELSE NoLink

\* fault: no region is skipped
UnsupportedNone(r) == r \notin Regions

\* if server_key == "IND"
Unsupported(r) == r = "IND"

RefreshInd(w) ==
  /\ pc[w] = "refresh"
  /\ Unsupported(server_key[w])
  /\ cache' = CacheSet(cache, server_key[w], <<>>)
  /\ outcome' = [outcome EXCEPT ![w] = "ind"]
  /\ prior' = [prior EXCEPT ![w] = PriorLink(server_key[w])]
  /\ last_outcome' = [last_outcome EXCEPT ![server_key[w]] = "ind"]
  /\ pc' = [pc EXCEPT ![w] = "return"]
  /\ UNCHANGED <<clock, last_refresh, lock, config, creds, idx, tokens, issued,
                 call_locals, route_locals, collected>>

\* fault: a region without source is given a built-in credential
LoadCredentialsGuest(r) ==
  LET e == config[r].env
      f == config[r].file
  IN IF e.set /\ ~e.empty
     THEN IF e.parses THEN e.value ELSE EmptyList
     ELSE IF f.exists
     THEN IF f.parses THEN f.value ELSE EmptyList
     ELSE [iterable |-> TRUE, users |-> <<"ok">>]

\* self._load_credentials(server_key): the blob if os.getenv gave a non-empty
\* string, else the file if it exists; [] for every exception
LoadCredentials(r) ==
  LET e == config[r].env
      f == config[r].file
  IN IF e.set /\ ~e.empty
     THEN IF e.parses THEN e.value ELSE EmptyList
     ELSE IF f.exists
     THEN IF f.parses THEN f.value ELSE EmptyList
     ELSE EmptyList

RefreshLoad(w) ==
  /\ pc[w] = "refresh"
  /\ ~Unsupported(server_key[w])
  /\ creds' = [creds EXCEPT ![w] = LoadCredentials(server_key[w])]
  /\ tokens' = [tokens EXCEPT ![w] = <<>>]
  /\ idx' = [idx EXCEPT ![w] = 1]
  /\ prior' = [prior EXCEPT ![w] = PriorLink(server_key[w])]
  /\ pc' = [pc EXCEPT ![w] =
              IF LoadCredentials(server_key[w]).iterable THEN "loop" ELSE "except"]
  /\ UNCHANGED <<clock, shared, config, outcome, issued, call_locals, route_locals,
                 ghosts>>

\* fault: every answer with a body is taken for a token (the status is not read)
CollectAnyAnswer(toks, res, cyc, i) ==
  IF res # "exc" THEN Append(toks, Token(cyc, i)) ELSE toks

\* tokens after the answer res of the issuer for credential i
Collect(toks, res, cyc, i) ==
  IF res = "token" THEN Append(toks, Token(cyc, i)) ELSE toks

IssuerCall(w) ==
  /\ pc[w] = "loop"
  /\ idx[w] <= Len(creds[w].users)
  /\ creds[w].users[idx[w]] = "ok"
  /\ \E res \in IssuerResults :
       /\ issued' = [issued EXCEPT ![w] = Append(@, res)]
       /\ tokens' = [tokens EXCEPT ![w] = Collect(@, res, now[w], idx[w])]
       /\ idx' = [idx EXCEPT ![w] = IF res = "exc" THEN @ ELSE @ + 1]
       /\ pc' = [pc EXCEPT ![w] = IF res = "exc" THEN "inner_except" ELSE "loop"]
  /\ UNCHANGED <<clock, shared, config, creds, outcome, prior, call_locals,
                 route_locals, ghosts>>

\* user['uid'] cannot be read: building params raises
BadCredential(w) ==
  /\ pc[w] = "loop"
  /\ idx[w] <= Len(creds[w].users)
  /\ creds[w].users[idx[w]] = "nouid"
  /\ pc' = [pc EXCEPT ![w] = "inner_except"]
  /\ UNCHANGED <<clock, shared, config, refresh_locals, call_locals, route_locals,
                 ghosts>>

\* fault: an exception of the issuer call ends the loop
InnerExceptAborts(w) ==
  /\ pc[w] = "inner_except"
  /\ pc' = [pc EXCEPT ![w] = "except"]
  /\ UNCHANGED <<clock, shared, config, refresh_locals, call_locals, route_locals,
                 ghosts>>

\* except Exception of the loop: its message reads user['uid'] again
InnerExcept(w) ==
  /\ pc[w] = "inner_except"
  /\ IF creds[w].users[idx[w]] = "nouid"
     THEN /\ pc' = [pc EXCEPT ![w] = "except"]
          /\ idx' = idx
     ELSE /\ pc' = [pc EXCEPT ![w] = "loop"]
          /\ idx' = [idx EXCEPT ![w] = @ + 1]
  /\ UNCHANGED <<clock, shared, config, creds, tokens, outcome, prior, issued,
                 call_locals, route_locals, ghosts>>

\* fault: an empty result leaves the entry as it was
RefreshStoreKeepStale(w) ==
  IF tokens[w] # <<>> THEN CacheSet(cache, server_key[w], tokens[w]) ELSE cache

\* if tokens: ... else: ...
RefreshStore(w) == CacheSet(cache, server_key[w], tokens[w])

Store(w) ==
  /\ pc[w] = "loop"
  /\ idx[w] > Len(creds[w].users)
  /\ cache' = RefreshStore(w)
  /\ outcome' = [outcome EXCEPT ![w] = IF tokens[w] # <<>> THEN "tokens" ELSE "empty"]
  /\ collected' = [collected EXCEPT ![server_key[w]] = tokens[w]]
  /\ last_outcome' = [last_outcome EXCEPT ![server_key[w]] =
                        IF tokens[w] # <<>> THEN "tokens" ELSE "empty"]
  /\ pc' = [pc EXCEPT ![w] = "return"]
  /\ UNCHANGED <<clock, last_refresh, lock, config, creds, idx, tokens, prior, issued,
                 call_locals, route_locals>>

\* fault: the handler records the region as empty whether or not it had an entry
ExceptStoreAlways(w) == CacheSet(cache, server_key[w], <<>>)

\* fault: the handler keeps the tokens collected before the error
ExceptStorePartial(w) == CacheSet(cache, server_key[w], tokens[w])

\* fault: the handler only logs
ExceptStoreNothing(w) == cache

\* the outer except Exception
ExceptStore(w) ==
  IF ~InCache(cache, server_key[w])
  THEN CacheSet(cache, server_key[w], <<>>)
  ELSE cache

\* fault: the handler logs and raises again; the with statement releases the lock
ExceptReraise(w) ==
  /\ pc[w] = "except"
  /\ pc' = [pc EXCEPT ![w] = "raised"]
  /\ lock' = NoWorker
  /\ UNCHANGED <<clock, cache, last_refresh, config, refresh_locals, call_locals,
                 route_locals, ghosts>>

Except(w) ==
  /\ pc[w] = "except"
  /\ cache' = ExceptStore(w)
  /\ outcome' = [outcome EXCEPT ![w] = "error"]
  /\ last_outcome' = [last_outcome EXCEPT ![server_key[w]] = "error"]
  /\ pc' = [pc EXCEPT ![w] = "return"]
  /\ UNCHANGED <<clock, last_refresh, lock, config, creds, idx, tokens, prior, issued,
                 call_locals, route_locals, collected>>

\* ----------------------------------------------------------- the routes
\* health_check asks get_tokens for every server in turn
HealthCheck(w) ==
  /\ w \in HealthWorkers
  /\ pc[w] = "idle"
  /\ caller' = [caller EXCEPT ![w] = "health_check"]
  /\ servers_left' = [servers_left EXCEPT ![w] = Tail(Servers)]
  /\ EnterGetTokens(w, Head(Servers))
  /\ UNCHANGED <<clock, shared, config, token_status, results, result, response,
                 straddles, ghosts>>

AllTrue(s) == \A k \in 1..Len(s) : s[k]

HealthNext(w) ==
  /\ pc[w] = "returned"
  /\ caller[w] = "health_check"
  /\ token_status' = [token_status EXCEPT ![w] = Append(@, Len(ret[w]) > 0)]
  /\ IF servers_left[w] = <<>>
     THEN /\ Answer(w, [kind |-> IF AllTrue(token_status'[w]) THEN "healthy" ELSE "degraded",
                        code |-> 200, status |-> 0, likes_added |-> 0])
          /\ UNCHANGED servers_left
     ELSE /\ EnterGetTokens(w, Head(servers_left[w]))
          /\ servers_left' = [servers_left EXCEPT ![w] = Tail(@)]
          /\ UNCHANGED response
  /\ UNCHANGED <<clock, shared, config, caller, results, result, straddles, ghosts>>

\* like_player: the uid check, then get_tokens("BR")
LikePlayer(w, valid) ==
  /\ w \in LikeWorkers
  /\ pc[w] = "idle"
  /\ caller' = [caller EXCEPT ![w] = "like_player"]
  /\ IF valid
     THEN /\ EnterGetTokens(w, "BR")
          /\ UNCHANGED response
     ELSE Answer(w, [kind |-> "invalid_uid", code |-> 400, status |-> 400,
                     likes_added |-> 0])
  /\ UNCHANGED <<clock, shared, config, servers_left, token_status, results, result,
                 straddles, ghosts>>

\* like_player: if not tokens -> 404, else send_likes, which asks get_tokens again
RouteCheck(w) ==
  /\ pc[w] = "returned"
  /\ caller[w] = "like_player"
  /\ IF ret[w] = <<>>
     THEN /\ Answer(w, [kind |-> "no_tokens", code |-> 404, status |-> 404,
                        likes_added |-> 0])
          /\ UNCHANGED caller
     ELSE /\ EnterGetTokens(w, "BR")
          /\ caller' = [caller EXCEPT ![w] = "send_likes"]
          /\ UNCHANGED response
  /\ UNCHANGED <<clock, shared, config, servers_left, token_status, results, result,
                 straddles, ghosts>>

\* what like_player answers from the value of send_likes
LikeResponse(res) ==
  [kind |-> "likes", code |-> 200, status |-> IF res.added > 0 THEN 1 ELSE 2,
   likes_added |-> res.added]

\* fault: the empty set is counted as one call sent
ZeroResultOneSent == [sent |-> 1, added |-> 0]

\* return {'sent': 0, 'added': 0}
ZeroResult == [sent |-> 0, added |-> 0]

\* send_likes after its get_tokens: the zero result, or one task per token
SendLikes(w) ==
  /\ pc[w] = "returned"
  /\ caller[w] = "send_likes"
  /\ IF ret[w] = <<>>
     THEN /\ result' = [result EXCEPT ![w] = ZeroResult]
          /\ Answer(w, LikeResponse(ZeroResult))
          /\ UNCHANGED results
     ELSE /\ results' = [results EXCEPT ![w] = [k \in 1..Len(ret[w]) |-> "pending"]]
          /\ pc' = [pc EXCEPT ![w] = "gather"]
          /\ DropValue(w)
          /\ UNCHANGED <<result, response>>
  /\ UNCHANGED <<clock, shared, config, caller, servers_left, token_status, straddles,
                 ghosts>>

\* async_post_request: None exactly when the request raised
PostResult(res) == IF res = "exception" THEN "None" ELSE "bytes"

\* one task of the gather completes
LikeCall(w, k) ==
  /\ pc[w] = "gather"
  /\ k \in 1..Len(results[w])
  /\ results[w][k] = "pending"
  /\ \E res \in LikeResults : results' = [results EXCEPT ![w][k] = res]
  /\ UNCHANGED <<clock, shared, config, pc, refresh_locals, call_locals, caller,
                 servers_left, token_status, result, response, straddles, ghosts>>

Added(rs) == Cardinality({k \in 1..Len(rs) : PostResult(rs[k]) # "None"})

\* fault: the gather returns with the first task that completes
AnySettled(rs) == \E k \in 1..Len(rs) : rs[k] # "pending"

\* await asyncio.gather(*tasks): every task has returned
AllSettled(rs) == \A k \in 1..Len(rs) : rs[k] # "pending"

\* asyncio.gather has every result: the counts, and the answer of like_player
Gather(w) ==
  /\ pc[w] = "gather"
  /\ AllSettled(results[w])
  /\ result' = [result EXCEPT ![w] = [sent |-> Len(results[w]), added |-> Added(results[w])]]
  /\ Answer(w, LikeResponse([sent |-> Len(results[w]), added |-> Added(results[w])]))
  /\ UNCHANGED <<clock, shared, config, caller, servers_left, token_status, results,
                 straddles, ghosts>>

NextInstant(t) == CHOOSE i \in Instants : i > t /\ \A j \in Instants : j > t => i <= j

\* The clock moves to the next instant.  A refresh lasts seconds (timeout=5 per
\* issuer call) and a request little more (timeout=10 per like call): the clock
\* does not move while the lock is held, and a request in flight sees it move
\* at most once.
Tick ==
  /\ clock < MaxTime
  /\ lock = NoWorker
  /\ \A w \in Workers : ~straddles[w]
  /\ clock' = NextInstant(clock)
  /\ straddles' = [w \in Workers |-> pc[w] # "idle"]
  /\ UNCHANGED <<shared, config, pc, refresh_locals, call_locals, caller, servers_left,
                 token_status, results, result, response, ghosts>>

Next ==
  \/ Tick
  \/ \E w \in Workers :
       \/ HealthCheck(w)
       \/ HealthNext(w)
       \/ \E valid \in BOOLEAN : LikePlayer(w, valid)
       \/ RouteCheck(w)
       \/ SendLikes(w)
       \/ \E k \in 1..MaxCreds + 1 : LikeCall(w, k)
       \/ Gather(w)
       \/ Done(w)
       \/ Acquire(w)
       \/ RefreshInd(w)
       \/ RefreshLoad(w)
       \/ IssuerCall(w)
       \/ BadCredential(w)
       \/ InnerExcept(w)
       \/ Store(w)
       \/ Except(w)
       \/ Return(w)

Spec == Init /\ [][Next]_vars

\* The steps of a request that worker w has begun, but for taking the lock:
\* the thread of a request is scheduled again and again, and every issuer call
\* (timeout=5) and every like call (timeout=10) completes or times out.
Progress(w) ==
  \/ HealthNext(w)
  \/ RouteCheck(w)
  \/ SendLikes(w)
  \/ \E k \in 1..MaxCreds + 1 : LikeCall(w, k)
  \/ Gather(w)
  \/ Done(w)
  \/ RefreshInd(w)
  \/ RefreshLoad(w)
  \/ IssuerCall(w)
  \/ BadCredential(w)
  \/ InnerExcept(w)
  \/ Store(w)
  \/ Except(w)
  \/ Return(w)

\* threading.Lock wakes one of the threads that wait for it, in no given order:
\* under a fair scheduler a thread that finds the lock free again and again
\* takes it at last.
Fairness == \A w \in Workers : WF_vars(Progress(w)) /\ SF_vars(Acquire(w))

FairSpec == Spec /\ Fairness

\* The loader under every pair of sources: the process right after its start,
\* serving health checks, each of which asks get_tokens for every server.
InitLoad == InitWith(Sources)

NextLoad ==
  \E w \in HealthWorkers :
    \/ HealthCheck(w)
    \/ HealthNext(w)
    \/ Done(w)
    \/ Acquire(w)
    \/ RefreshInd(w)
    \/ RefreshLoad(w)
    \/ IssuerCall(w)
    \/ BadCredential(w)
    \/ InnerExcept(w)
    \/ Store(w)
    \/ Except(w)
    \/ Return(w)

SpecLoad == InitLoad /\ [][NextLoad]_vars

\* ------------------------------------------------------------- the claims
SK(w) == server_key[w]

\* C1: one stale read is refreshed once, also under concurrent callers: at most
\* one worker is in a refresh cycle, and a worker that called get_tokens(r)
\* while a refresh of r was running and takes the lock within the threshold of
\* that refresh starts no refresh of its own.
C1_OneRefreshPerStaleRead ==
  /\ Cardinality({w \in Workers : pc[w] \in RefreshPcs}) <= 1
  /\ \A w \in Workers :
       (pc[w] \in LockedPcs /\ seen[w] # NoKey
          /\ now[w] - seen[w] <= TOKEN_REFRESH_THRESHOLD)
       => ~refresh_needed[w]

\* C2: a get_tokens(r) call whose time is within the threshold of the time of
\* the call that last refreshed r starts no refresh and calls no issuer.
C2_NoSecondRefreshWithinThreshold ==
  \A w \in Workers :
    (pc[w] \in LockedPcs /\ last_refresh[SK(w)] # NoKey
       /\ now[w] - last_refresh[SK(w)] <= TOKEN_REFRESH_THRESHOLD)
    => (~refresh_needed[w] /\ issued[w] = <<>>)

C3_Inside == {w \in Workers : pc[w] \in LockedPcs}

\* C3: the check, the refresh and the read of get_tokens run under one lock:
\* at most one worker is inside, it is the lock holder, and every write to the
\* cache or to last_refresh is a step of the lock holder.
C3_GetTokensAtomic ==
  /\ [](Cardinality(C3_Inside) <= 1 /\ \A w \in Workers : (w \in C3_Inside <=> lock = w))
  /\ [][(cache' # cache \/ last_refresh' # last_refresh)
          => (lock \in Workers /\ pc[lock] \in LockedPcs /\ pc'[lock] # pc[lock])]_vars

C3_Witness ==
  \E w, v \in Workers :
    /\ pc[w] = "loop" /\ tokens[w] # <<>>
    /\ pc[v] = "lock" /\ SK(v) = SK(w)

\* C4: an entry holds nothing or the whole token list of one completed cycle of
\* its region, and so does every value get_tokens returns.
C4_WholeSets ==
  /\ [](\A r \in Regions : cache[r].has => cache[r].val \in {<<>>, collected[r]})
  /\ [][\A w \in Workers :
          (pc[w] = "return" /\ pc'[w] = "returned")
          => ret'[w] \in {<<>>, collected[SK(w)]}]_vars

C4_Witness ==
  \E w \in Workers :
    /\ pc[w] = "returned" /\ Len(ret[w]) > 1
    /\ \E v \in Workers : pc[v] = "loop" /\ SK(v) = SK(w) /\ tokens[v] # <<>>

Failed(rs) == Cardinality({k \in 1..Len(rs) : rs[k] # "success"})

\* C5: a burst over N tokens with M failed like calls (exception or
\* non-success answer) returns sent = N and added = N - M.
C5_CountsFailures ==
  \A w \in Workers :
    (pc[w] = "done" /\ results[w] # <<>>)
    => /\ result[w].sent = Len(results[w])
       /\ result[w].added = Len(results[w]) - Failed(results[w])

\* C6: the answer of like_player tells the three outcomes apart: "no tokens"
\* when no like call was attempted, "none succeeded" (status 2) only after at
\* least one attempted call, "some succeeded" (status 1) otherwise.
C6_ThreeOutcomes ==
  \A w \in Workers :
    (pc[w] = "done" /\ response[w].kind \in {"no_tokens", "likes"})
    => /\ response[w].kind = "no_tokens" => results[w] = <<>>
       /\ (response[w].kind = "likes" /\ response[w].status = 2)
            => (result[w].sent >= 1 /\ result[w].added = 0)
       /\ (response[w].kind = "likes" /\ response[w].status = 1)
            => result[w].added >= 1

IsTokenSet(v) ==
  /\ DOMAIN v = 1..Len(v)
  /\ \A k \in 1..Len(v) : v[k] \in [cyc : Instants, idx : 1..MaxCreds]

\* C7: get_tokens raises nothing: whatever the refresh met, the call returns a
\* token list and the lock is free of the caller.
C7_NeverRaises ==
  \A w \in Workers :
    /\ pc[w] # "raised"
    /\ lock = w => pc[w] \in LockedPcs
    /\ pc[w] = "returned" => (lock # w /\ IsTokenSet(ret[w]))

C7_Witness ==
  \E w \in Workers :
    /\ pc[w] = "returned" /\ outcome[w] = "error"
    /\ Len(issued[w]) >= 1 /\ issued[w][1] = "exc"

\* C8: after an internal error the entry the region had is left as it was, and
\* a region without entry is recorded as empty.
C8_ErrorKeepsPriorEntry ==
  \A w \in Workers :
    (pc[w] = "return" /\ outcome[w] = "error")
    => IF prior[w].has
       THEN cache[SK(w)] = prior[w]
       ELSE cache[SK(w)].has /\ cache[SK(w)].val = <<>> /\ InCache(cache, SK(w))

C8_Witness ==
  \E w \in Workers :
    /\ pc[w] = "return" /\ outcome[w] = "error"
    /\ prior[w].has /\ cache[SK(w)] = prior[w]

\* C9: a cycle that ends its loop without token sets the entry to empty, also
\* over tokens, and the call and the later reads up to the next cycle return
\* empty; with a token the collected list replaces the entry and is returned.
C9_EmptyReplacesStale ==
  /\ \A r \in Regions :
       /\ last_outcome[r] = "empty" => CacheGet(cache, r) = <<>>
       /\ (last_outcome[r] = "tokens" /\ InCache(cache, r))
            => (cache[r].val = collected[r] /\ collected[r] # <<>>)
  /\ \A w \in Workers :
       /\ (pc[w] = "return" /\ outcome[w] = "empty")
            => (InCache(cache, SK(w)) /\ cache[SK(w)].val = <<>>)
       /\ (pc[w] = "returned" /\ outcome[w] = "empty") => ret[w] = <<>>
       /\ (pc[w] = "return" /\ outcome[w] = "tokens") => cache[SK(w)].val = tokens[w]
       /\ (pc[w] = "returned" /\ outcome[w] = "tokens") => ret[w] = tokens[w]

C9_Witness ==
  \E w \in Workers :
    /\ pc[w] = "return" /\ outcome[w] = "empty" /\ issued[w] # <<>>
    /\ prior[w].has /\ prior[w].val # <<>>
    /\ cache[SK(w)].val = <<>>

Succeeded(w) == {k \in 1..Len(issued[w]) : issued[w][k] = "token"}

\* C10: a cycle that called the issuer for each of its N credentials, K of the
\* calls answering with a token, stores and returns K tokens, one for each
\* credential that succeeded.
C10_OneTokenPerSuccess ==
  \A w \in Workers :
    /\ (pc[w] = "return" /\ outcome[w] \in {"tokens", "empty"})
         => /\ Len(issued[w]) = Len(creds[w].users)
            /\ Len(cache[SK(w)].val) = Cardinality(Succeeded(w))
            /\ {cache[SK(w)].val[k].idx : k \in 1..Len(cache[SK(w)].val)} = Succeeded(w)
    /\ (pc[w] = "returned" /\ outcome[w] \in {"tokens", "empty"})
         => /\ Len(ret[w]) = Cardinality(Succeeded(w))
            /\ {ret[w][k].idx : k \in 1..Len(ret[w])} = Succeeded(w)

C10_Witness ==
  \E w \in Workers :
    /\ pc[w] = "returned" /\ outcome[w] = "tokens"
    /\ Len(issued[w]) = MaxCreds /\ Len(ret[w]) = MaxCreds - 1

\* C11: a failed issuer call (another status, or an exception of the transport)
\* does not end the loop: while the loop runs every credential passed had
\* exactly one issuer call and the tokens are those of the calls that
\* succeeded, before and after the failure; the cycle ends in the outer
\* handler only for a value that is no list or a credential without uid.
C11_FailedCallKeepsBatch ==
  \A w \in Workers :
    /\ pc[w] = "loop"
         => /\ Len(issued[w]) = idx[w] - 1
            /\ Len(tokens[w]) = Cardinality(Succeeded(w))
            /\ {tokens[w][k].idx : k \in 1..Len(tokens[w])} = Succeeded(w)
    /\ pc[w] = "except"
         => (~creds[w].iterable \/ creds[w].users[idx[w]] = "nouid")

C11_Witness ==
  \E w \in Workers :
    /\ pc[w] = "return" /\ outcome[w] = "tokens"
    /\ issued[w] = <<"exc", "token">>
    /\ Len(cache[SK(w)].val) = 1

C12_Pending(w) == {k \in 1..Len(results[w]) : results[w][k] = "pending"}

\* C12: a burst starts one like call for each token of the set send_likes read,
\* all pending at once; a call that completes or fails changes its own result
\* alone; send_likes returns when no call is pending, and its sent count is the
\* number of tokens read.
C12_BurstAllOrSettled ==
  /\ [][\A w \in Workers :
          (pc[w] = "returned" /\ caller[w] = "send_likes" /\ pc'[w] = "gather")
          => /\ Len(results'[w]) = Len(ret[w])
             /\ \A k \in 1..Len(ret[w]) : results'[w][k] = "pending"]_vars
  /\ [][\A w \in Workers :
          (pc[w] = "gather" /\ pc'[w] = "gather")
          => /\ Len(results'[w]) = Len(results[w])
             /\ \A k \in 1..Len(results[w]) :
                  k \notin C12_Pending(w) => results'[w][k] = results[w][k]
             /\ Cardinality({k \in 1..Len(results[w]) :
                               results'[w][k] # results[w][k]}) <= 1]_vars
  /\ [][\A w \in Workers :
          (pc[w] = "gather" /\ pc'[w] # "gather")
          => /\ pc'[w] = "done"
             /\ C12_Pending(w) = {}
             /\ results'[w] = results[w]
             /\ result'[w].sent = Len(results[w])]_vars

C12_Witness ==
  \E w \in Workers :
    /\ pc[w] = "done" /\ results[w] = <<"exception", "success">>
    /\ result[w] = [sent |-> 2, added |-> 1]

\* C13: when get_tokens gives send_likes the empty set, send_likes returns
\* sent 0 and added 0 at once and no like call is made.
C13_EmptySetZeroResult ==
  [][\A w \in Workers :
       (pc[w] = "returned" /\ caller[w] = "send_likes" /\ ret[w] = <<>>
          /\ pc'[w] # pc[w])
       => /\ result'[w] = [sent |-> 0, added |-> 0]
          /\ results'[w] = <<>>
          /\ pc'[w] = "done"]_vars

C13_Witness ==
  \E w \in Workers :
    /\ pc[w] = "done" /\ caller[w] = "send_likes"
    /\ result[w] = [sent |-> 0, added |-> 0] /\ results[w] = <<>>

\* the sources of region r hold no credential: a source that decides and gives
\* the empty list or cannot be parsed, or no source at all
C14_NoCredentials(r) ==
  LET e == config[r].env
      f == config[r].file
  IN \/ e.set /\ ~e.empty /\ (~e.parses \/ e.value = EmptyList)
     \/ (~e.set \/ e.empty) /\ (~f.exists \/ ~f.parses \/ f.value = EmptyList)

\* C14: for a region whose loader yields no credential, no refresh cycle calls
\* the issuer, the entry holds no token and every get_tokens call returns the
\* empty set, the first and the later ones.
C14_NoCredentialsNoIssuer ==
  /\ \A r \in Regions : C14_NoCredentials(r) => CacheGet(cache, r) = <<>>
  /\ \A w \in Workers :
       C14_NoCredentials(SK(w))
       => /\ issued[w] = <<>> /\ tokens[w] = <<>>
          /\ pc[w] = "returned" => ret[w] = <<>>

C14_Witness ==
  \E w \in Workers :
    /\ C14_NoCredentials("BR") /\ SK(w) = "BR"
    /\ pc[w] = "returned" /\ outcome[w] = "empty"
    /\ last_refresh["BR"] >= TOKEN_REFRESH_THRESHOLD

\* C15: for "IND" the credentials are not loaded and the issuer is not called,
\* the entry holds no token and every get_tokens("IND") returns the empty set,
\* whatever is configured for the region and whenever it is called.
C15_IndShortCircuit ==
  /\ CacheGet(cache, "IND") = <<>>
  /\ \A w \in Workers :
       SK(w) = "IND"
       => /\ issued[w] = <<>> /\ tokens[w] = <<>>
          /\ creds[w] = NullConfig
          /\ pc[w] \notin {"loop", "inner_except", "except"}
          /\ pc[w] = "returned" => ret[w] = <<>>

C15_Witness ==
  \E w \in Workers :
    /\ SK(w) = "IND" /\ pc[w] = "returned" /\ outcome[w] = "ind"
    /\ LoadCredentials("IND").users = <<"ok", "ok">>
    /\ last_refresh["IND"] >= TOKEN_REFRESH_THRESHOLD

\* C16: while the time since the last refresh of a region is within the
\* threshold the entry of the region is present, and a call that takes the lock
\* then finds the entry and starts no refresh.
C16_RefreshedBeforeExpiry ==
  /\ \A r \in Regions :
       (last_refresh[r] # NoKey /\ clock - last_refresh[r] <= TOKEN_REFRESH_THRESHOLD)
       => InCache(cache, r)
  /\ \A w \in Workers :
       (pc[w] \in LockedPcs /\ refresh_needed[w] /\ last_refresh[SK(w)] # NoKey)
       => now[w] - last_refresh[SK(w)] > TOKEN_REFRESH_THRESHOLD

\* region r was never populated, its entry has expired, or more than the
\* threshold has passed since its last refresh
C17_Stale(r) ==
  \/ last_refresh[r] = NoKey
  \/ ~cache[r].has
  \/ cache[r].expires <= clock
  \/ clock - last_refresh[r] > TOKEN_REFRESH_THRESHOLD

\* C17: a get_tokens call that takes the lock starts a refresh exactly when its
\* region is stale; when a call returns, after a fresh read or after a refresh
\* of any outcome, its region has an entry and the last-refresh time is the
\* time of a call, at most one threshold old.
C17_RegionCycle ==
  /\ [][\A w \in Workers :
          (pc[w] = "lock" /\ pc'[w] # "lock")
          => /\ pc'[w] = "refresh" <=> C17_Stale(SK(w))
             /\ pc'[w] = "return" <=> ~C17_Stale(SK(w))]_vars
  /\ [][\A w \in Workers :
          (pc[w] \in RefreshPcs /\ pc'[w] \notin RefreshPcs) => pc'[w] = "return"]_vars
  /\ [][\A w \in Workers :
          (pc[w] = "return" /\ pc'[w] # "return")
          => /\ pc'[w] = "returned"
             /\ cache'[SK(w)].has /\ clock' < cache'[SK(w)].expires
             /\ last_refresh'[SK(w)] \in Instants
             /\ clock' - last_refresh'[SK(w)] <= TOKEN_REFRESH_THRESHOLD
             /\ clock' - last_refresh'[SK(w)] >= 0]_vars

C17_Witness ==
  \E w \in Workers :
    /\ pc[w] = "returned" /\ outcome[w] = "error"
    /\ last_refresh[SK(w)] = clock /\ clock >= TOKEN_REFRESH_THRESHOLD
    /\ InCache(cache, SK(w)) /\ cache[SK(w)].expires < clock + CACHE_DURATION

\* what decides the credentials of region r: the blob alone when it is set,
\* else the file
C18_Decides(r) ==
  LET e == config[r].env
      f == config[r].file
  IN IF e.set
     THEN IF e.parses THEN e.value ELSE EmptyList
     ELSE IF f.exists /\ f.parses THEN f.value ELSE EmptyList

\* C18: the loader gives its caller a value for every pair of sources: what the
\* environment blob parses to when the blob is set, the empty list when the set
\* blob does not parse, and only without a blob what the file parses to, the
\* empty list when the file is missing or does not parse.
C18_LoaderPriority ==
  \A w \in Workers :
    pc[w] \in {"loop", "inner_except", "except"} => creds[w] = C18_Decides(SK(w))

\* C19: the steps of a get_tokens(r) call leave what the cache holds for every
\* other region and its last-refresh time as they were, and a call that finds
\* its region fresh changes neither the cache nor last_refresh and gives the
\* lock back.
C19_OtherRegionsUntouched ==
  /\ [][\A w \in Workers :
          (pc'[w] # pc[w] /\ (lock = w \/ lock' = w))
          => \A r \in Regions \ {SK(w)} :
               /\ CacheGet(cache', r) = CacheGet(cache, r)
               /\ last_refresh'[r] = last_refresh[r]]_vars
  /\ [][\A w \in Workers :
          (pc[w] = "lock" /\ pc'[w] = "return")
          => (cache' = cache /\ last_refresh' = last_refresh)]_vars
  /\ [][\A w \in Workers :
          (pc[w] = "return" /\ ~refresh_needed[w] /\ pc'[w] # pc[w])
          => (cache' = cache /\ last_refresh' = last_refresh /\ lock' = NoWorker)]_vars

C19_Witness ==
  \E w \in Workers :
    /\ pc[w] = "return" /\ SK(w) = "IND" /\ refresh_needed[w]
    /\ now[w] >= TOKEN_REFRESH_THRESHOLD
    /\ Len(CacheGet(cache, "BR")) = MaxCreds
    /\ last_refresh["BR"] = now[w]

\* C20: under fair scheduling every get_tokens call that waits for the lock
\* takes it and returns, whatever the other worker does and however its
\* refresh ends, and every burst of like calls returns its counts.
C20_EveryCallReturns ==
  /\ \A w \in Workers : (pc[w] = "lock") ~> (pc[w] = "returned")
  /\ \A w \in LikeWorkers :
       (pc[w] = "gather") ~> (pc[w] = "done" /\ result[w].sent = Len(results[w]))

C20_Witness ==
  \E w, v \in Workers :
    /\ lock = w /\ pc[w] = "except"
    /\ pc[v] = "lock" /\ SK(v) # SK(w)
====
